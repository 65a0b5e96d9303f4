SPECIFICATION FairSpec
CONSTANTS
  ChangeKeys = {"change"}
  NoteKeys = {"note"}
  OwnKeys = {"own"}
  Conditions = {"command", "review_consensus"}
  MaxNewFindings = 20
  MaxNewPerCycle = 5
  MaxReopened = 0
  DecreaseAfter = 2
  MaxPush = 1
  d1 = d1
  d2 = d2
  Drives = {d1}
  MaxIterations = 3
  MaxCycles = 3
  MaxReruns = 2
  Extension = 1
  MaxRuns = 5
  MaxCrashes = 1
  MaxLapses = 0
  MaxOps = 1
  OpKinds = {"cancel", "close", "reopen", "add", "fixed", "classify", "attempt"}
INVARIANT PrHasItsReview
PROPERTY OnlyApprovalRetires
PROPERTY SettlesUnlessAbandoned
