SPECIFICATION Spec
CONSTANTS
  Stories = {s1, s2}
  NoStory = NoStory
  Procs = {p1, p2}
  MaxAdds = 2
  MaxCompletions = 0
  MaxFaults = 0
INVARIANT NoCycle
CHECK_DEADLOCK FALSE
