SPECIFICATION FairSpec
CONSTANTS
  Procs = {p1, p2}
  MaxRetries = 1
  MaxStarts = 1
  MaxPauses = 0
  MaxResumes = 0
  MaxScans = 0
  MaxStalls = 1
  MaxFaults = 1
  HandoffAnswers = {"handoff"}
  Faults = {"crash"}
PROPERTIES LockIsFreed PhasesEnd
CHECK_DEADLOCK FALSE
