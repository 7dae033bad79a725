SPECIFICATION FairSpec
CONSTANTS
  j1 = j1
  other = other
  Jobs = {j1}
  Attempts = 2
  MaxConcurrent = 1
  MaxRuns = 3
  Others <- OtherIds
  Sessions <- Ids
  Scenarios <- Starts
INVARIANTS TypeOK LimitKept CountedIsAlive WaitsForSomeone OneVerdict RowTellsTheEnd EveryAgentIsAwaited OkMeansDone BadDeploymentIsUndone
PROPERTIES JobsSettle ImplementsPhaseJobs
CHECK_DEADLOCK FALSE
