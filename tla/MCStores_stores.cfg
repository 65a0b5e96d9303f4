SPECIFICATION StoresSpec
CONSTANTS
  Migrators = {"m1", "m2"}
  Builds = {3, 19, 41}
  ForeignSlots = {20}
  MaxStarts = 3
  Users = {"u1", "u2"}
  Operators = {"o1"}
  Backups = {"b1"}
  MaxCommits = 2
  MaxRestores = 1
  MaxDeaths = 2
  ReviewerIds = {"rv1", "rv2"}
  Bodies = {"b1", "b2"}
  DiffBody = "b1"
  CrashAt = {"gate", "ingest", "mark", "clear", "codex", "sync", "remove", "put", "record", "fetch"}
  McpGc = FALSE
  MaxReviews = 2
  MaxBlobOps = 2
  BacklogUsers = {b1, b2}
  MaxItems = 2
  FileOnlyItems = {1}
  BacklogRuns = {"r1"}
  ExportModes = {TRUE, FALSE}
  FaultsOn = TRUE
  MaxBacklogCommands = 3
  KnowledgeUsers = {k1, k2}
  MaxCandidates = 2
  HashOf <- OneText
  LegacyMds = {2}
  OpsKeys = {11}
  KnowledgeExportModes = {TRUE, FALSE}
  KnowledgeFaults = TRUE
  MaxKnowledgeCommands = 3
INVARIANTS MigrationsKeepRows StoreIsWhole TranscriptsStay
INVARIANTS SyncedAtItsRevision ContextIsVetted
PROPERTIES ReadsNeverRollBack DeprecationStands
CHECK_DEADLOCK FALSE
