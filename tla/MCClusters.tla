------------------------------ MODULE MCClusters ------------------------------
EXTENDS Clusters, TLC

CONSTANTS i1, i2, ha, hb, bad, r1, r2

Symmetry == Permutations({i1, i2}) \cup Permutations({ha, hb}) \cup Permutations({r1, r2})
=============================================================================
