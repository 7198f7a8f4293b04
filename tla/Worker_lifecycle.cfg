\* Three failures open the breaker, 2 ** attempt overflows at attempt two, and
\* a full channel is two events.
CONSTANTS
  MaxFailures = 3
  MaxAttempt = 2
  ChanCap = 2
SPECIFICATION FairSpec
INVARIANTS TypeOK NeverSpawnOpen CleanEnd NoRefusedMove NothingUnannounced
PROPERTIES NoSpawnAfterStop RefinesWorkerState StopReturns ExitNoticed RetryWorks
