SPECIFICATION Spec
CONSTANTS
  Stories = {s1, s2, s3}
  NoStory = NoStory
  Procs = {p1, p2}
  MaxAdds = 3
  MaxCompletions = 2
  MaxFaults = 1
SYMMETRY Symmetry
INVARIANTS TypeOK NoCycleAlone IndexAgrees NobodyForgotten
PROPERTIES OnlyUnblockedAnnounced ImplementsStoryGraph
CHECK_DEADLOCK FALSE
