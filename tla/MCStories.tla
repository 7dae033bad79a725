----------------------------- MODULE MCStories -----------------------------
EXTENDS StoryDependencies, TLC
Symmetry == Permutations(Procs) \cup Permutations(Stories)
=============================================================================
