-------------------------- MODULE MCCollectionJobs --------------------------
EXTENDS CollectionJobs, TLC

Symmetry ==
  Permutations(Jobs) \cup Permutations(Procs) \cup Permutations(Threads)
  \cup Permutations(Commands \ SlotCommands) \cup Permutations(Tasks)
=============================================================================
