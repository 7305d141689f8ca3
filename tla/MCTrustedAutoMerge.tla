-------------------------- MODULE MCTrustedAutoMerge --------------------------
EXTENDS TrustedAutoMerge, TLC

\* Pull requests, and the commits of one, differ in nothing but their names.
MCSymmetry == Permutations(Prs) \cup Permutations(Commits)
=============================================================================
