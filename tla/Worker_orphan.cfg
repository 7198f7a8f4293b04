CONSTANTS
  MaxFailures = 2
  MaxAttempt = 1
  ChanCap = 1
SPECIFICATION Spec
INVARIANT NoOrphan
