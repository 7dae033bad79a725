SPECIFICATION Spec
CONSTANTS
  Procs = {p1, p2}
  MaxRetries = 1
  MaxStarts = 2
  MaxPauses = 0
  MaxResumes = 0
  MaxScans = 0
  MaxStalls = 0
  MaxFaults = 0
  HandoffAnswers = {"handoff"}
  Faults = {}
PROPERTY NeverReplacesActive
CHECK_DEADLOCK FALSE
