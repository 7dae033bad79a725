SPECIFICATION Spec
CONSTANTS
  Procs = {p1, p2}
  MaxRetries = 0
  MaxStarts = 2
  MaxPauses = 0
  MaxResumes = 0
  MaxScans = 1
  MaxStalls = 0
  MaxFaults = 0
  HandoffAnswers = {"handoff"}
  Faults = {}
PROPERTY RecoveryKeepsActive
CHECK_DEADLOCK FALSE
