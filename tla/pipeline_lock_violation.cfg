SPECIFICATION Spec
CONSTANTS
  Procs = {p1, p2}
  MaxRetries = 0
  MaxStarts = 2
  MaxPauses = 0
  MaxResumes = 0
  MaxScans = 0
  MaxStalls = 0
  MaxFaults = 0
  HandoffAnswers = {"handoff"}
  Faults = {}
INVARIANT MutualExclusion
CHECK_DEADLOCK FALSE
