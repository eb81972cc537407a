------------------------------- MODULE MCGitOps -------------------------------
EXTENDS GitOps, TLC

CONSTANTS p1, p2, g1, g2, st1, u1, u2, b1, c1, c2

Symmetry == Permutations({p1, p2}) \cup Permutations({c1, c2})
=============================================================================
