SPECIFICATION PrSpec
CONSTANTS
  CliCallers = {"cli"}
  CloseCallers = {"close"}
  SalvageCallers = {"salvage"}
  Message <- MCMessage
  MaxClosePushAttempts = 1
  MaxTries = 2
  MaxTouches = 2
  HandCommitsAfterPush = FALSE
INVARIANT MergedIsReviewed
PROPERTY OnlyReviewedIsPushed
CHECK_DEADLOCK FALSE
