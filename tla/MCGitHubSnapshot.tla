-------------------------- MODULE MCGitHubSnapshot --------------------------
EXTENDS GitHubSnapshot, TLC

Symmetry == Permutations(Ids)
=============================================================================
