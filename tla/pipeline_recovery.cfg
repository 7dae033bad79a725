SPECIFICATION Spec
CONSTANTS
  Procs = {p1, p2}
  MaxRetries = 0
  MaxStarts = 2
  MaxPauses = 0
  MaxResumes = 1
  MaxScans = 1
  MaxStalls = 0
  MaxFaults = 0
  HandoffAnswers = {"handoff", "rejected", "escalated"}
  Faults = {}
SYMMETRY Symmetry
INVARIANT NoStrandedPhase
PROPERTY ImplementsLifecycle
CHECK_DEADLOCK FALSE
