SPECIFICATION Spec
CONSTANTS
  Procs = {p1, p2}
  MaxRetries = 1
  MaxStarts = 1
  MaxPauses = 1
  MaxResumes = 0
  MaxScans = 0
  MaxStalls = 0
  MaxFaults = 0
  HandoffAnswers = {"handoff"}
  Faults = {}
INVARIANT ResumeRestores
CHECK_DEADLOCK FALSE
