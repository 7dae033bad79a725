SPECIFICATION Spec
CONSTANTS
  Procs = {p1, p2}
  MaxRetries = 1
  MaxStarts = 1
  MaxPauses = 1
  MaxResumes = 1
  MaxScans = 0
  MaxStalls = 0
  MaxFaults = 1
  HandoffAnswers = {"handoff", "queued", "rejected", "escalated", "error"}
  Faults = {"expiry", "timeout", "crash", "audit", "enqueue", "forget", "lose"}
SYMMETRY Symmetry
INVARIANTS TypeOK ExclusiveWhileClean NoLostUpdate AuditAgrees
PROPERTIES AuditIsAPath ImplementsLifecycle
CHECK_DEADLOCK FALSE
