SPECIFICATION ReviewSpec
CONSTANTS
  Autos = {"a1", "a2"}
  Processors = {"p1"}
  Overriders = {"o1", "o2"}
  Drives = {"d1", "d2"}
  Group <- MCGroup
  Settings <- AllSettings
  Rules <- MCRules
  Reviewers <- MCReviewers
  BallotGroup <- MCBallotGroup
  Changes = {c1, c2}
  Prompts = {p1, p2}
  MaxNow = 1
  MaxVotes = 3
INVARIANTS VerdictHasItsSource NoBallotLeftOut DecidingRowStands
INVARIANTS NoApprovalOverObjection RejectionPrevails
CHECK_DEADLOCK FALSE
SYMMETRY BallotSymmetry
