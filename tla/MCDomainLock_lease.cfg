SPECIFICATION LockFairSpec
CONSTANTS
  Runs = {r1, r2}
  Domains = {d1, d2}
  Lease = 2
  NoRun = NoRun
INVARIANT FencingOrder
PROPERTY OperatorHitsMatchedRow
PROPERTY LeaseIsHonoured
PROPERTY CrashedLeaseLapses
PROPERTY ImplementsFencedLock
CHECK_DEADLOCK FALSE
