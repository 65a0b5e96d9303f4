SPECIFICATION Spec
CONSTANTS
  ChangeKeys = {"change"}
  NoteKeys = {"note"}
  OwnKeys = {"own"}
  Conditions = {"review_consensus", "manual"}
  MaxNewFindings = 20
  MaxNewPerCycle = 5
  MaxReopened = 3
  DecreaseAfter = 0
  MaxPush = 1
  d1 = d1
  d2 = d2
  Drives = {d1, d2}
  MaxIterations = 2
  MaxCycles = 2
  MaxReruns = 1
  Extension = 1
  MaxRuns = 4
  MaxCrashes = 0
  MaxLapses = 1
  MaxOps = 1
  OpKinds = {"record", "add"}
SYMMETRY DriveSymmetry
INVARIANT BudgetHolds
