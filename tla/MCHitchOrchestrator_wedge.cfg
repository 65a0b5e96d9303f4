SPECIFICATION FairSpec
CONSTANTS
  ChangeKeys = {"change"}
  NoteKeys = {}
  OwnKeys = {"own"}
  Conditions = {"review_consensus"}
  MaxNewFindings = 20
  MaxNewPerCycle = 5
  MaxReopened = 3
  DecreaseAfter = 0
  MaxPush = 1
  d1 = d1
  d2 = d2
  Drives = {d1}
  MaxIterations = 3
  MaxCycles = 3
  MaxReruns = 2
  Extension = 1
  MaxRuns = 4
  MaxCrashes = 1
  MaxLapses = 0
  MaxOps = 1
  OpKinds = {"add"}
PROPERTY AlwaysSettles
