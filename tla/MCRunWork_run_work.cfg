SPECIFICATION WorkSpec
CONSTANTS
  Runs = {p, r1, r2}
  Domains = {d1}
  Lease = 1
  NoRun = NoRun
  History = {p}
  Outcomes = {"needs_review"}
  MaxAttempts = 1
  CleanupForces = {}
  OperatorWants = {}
  RunPaths = {"a", "n", "o", "g"}
  WriteScope = {"a", "n", "o", "g"}
  DenyWrite = {"o"}
  IgnoreUntracked = {"g"}
  BaseTrees <- TwoBases
  InitialTips <- SomeTips
  ParentRuns <- SomeParents
  RunBudget <- SmallBudget
  BudgetOverride <- OneMoreLine
  AllowedCommands = 1
  MaxLines = 2
  MaxEdits = 3
SYMMETRY RunSymmetry
INVARIANTS OneLeasedChild OneLateWrite
INVARIANTS ReviewedIsVetted DeniedBytesStayOut CarryIsWhole
CHECK_DEADLOCK FALSE
