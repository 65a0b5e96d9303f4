SPECIFICATION FairSpec
CONSTANTS
  Runs = {p, r1}
  Domains = {d1}
  Lease = 2
  NoRun = NoRun
  History = {p}
  Outcomes = {"needs_review", "failed-diff-collection", "failed-codex-timeout", "failed-codex", "failed-policy-violation", "failed-budget-exceeded"}
  MaxAttempts = 1
  CleanupForces = {FALSE}
  OperatorWants = {NoRun}
INVARIANT NoOrphanRow
PROPERTY VerdictStands
PROPERTY NoRottingRun
CHECK_DEADLOCK FALSE
