SPECIFICATION ArtifactsSpec
CONSTANTS
  ReviewerIds = {"rv1"}
  Bodies = {"b1", "b2"}
  DiffBody = "b1"
  CrashAt = {"export"}
  McpGc = FALSE
  MaxReviews = 2
  MaxBlobOps = 0
INVARIANT NeverReadsPartialScratch
CHECK_DEADLOCK FALSE
