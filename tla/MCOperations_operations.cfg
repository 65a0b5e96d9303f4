SPECIFICATION OperationsSpec
CONSTANTS
  Callers = {c1, c2}
  Operators = {o1}
  Casts <- MCCasts
  Keys = {"run1", "run2", "merge"}
  Requests = {r1}
  KeyOf <- KeyOfRequest
  Client <- OneClient
  RunKeys = {"run1", "run2"}
  Deferred = {"run2"}
  MaxMutations = 2
  MaxRuns = 2
  MaxConcurrent = 1
  Hour = 1
  Ttl = 1
  MayReject = TRUE
  MayCrash = TRUE
  DbMayFail = TRUE
  MayRepair = TRUE
  MaxRows = 3
  MaxNow = 2
  McpRows <- RowSet
  NoRow <- NoRowAtAll
  ClassOf <- RowClass
  InitialHome <- RowHome
  InitialLink <- RowLink
  Clients = {"scoped", "pair", "open", "reader"}
  Mode <- ModeOfClient
  AllowedProjects <- ProjectsOf
  AllowedOperations <- AllowedOf
  DeniedOperations <- DeniedOf
  RequireConfirmation <- ConfirmedOf
  Files = {"f1", "f2"}
  Operations = {"o"}
  Categories = {"x"}
  Commands = {"c1", "c2"}
  PhaseHitches = {"h1"}
  HitchSpecs <- TwoSpecs
  McpClients = {"mine", "other"}
  VisibleTo = {"mine"}
  Undefined = Undefined
  AgentOrder <- TwoAgents
  PathOrder <- TwoPaths
  HomePath <- PathOfAgent
  VerifyPath = "p2"
  OtherBranches = {"feature"}
  SourceFiles = {"f1"}
  LinkedHitches = {"h1"}
  HitchDecision <- OneNeedsFix
  MaxMoves = 3
INVARIANTS AtMostOnce BudgetHolds
INVARIANTS AnswersStayInScope WritesStayInScope
INVARIANTS RatifiedSpecOnlyTightens AnswersFitTheTrees
CHECK_DEADLOCK FALSE
